---- MODULE Spec2Model ----
(***************************************************************************)
(* Dynamic tool registry and dispatch of the MCP server                    *)
(* (src/app/api/[transport]/route.ts) together with the descriptor store   *)
(* it reads (src/lib/database.ts) and the tools API that writes the store  *)
(* (src/app/api/tools/route.ts).                                           *)
(*                                                                         *)
(* Every `await` of the source is a point where another request may run:   *)
(* an action below is the synchronous code between two awaits.             *)
(* Time is Date.now() in milliseconds.  Arrays of descriptors are objects  *)
(* on a heap, so that two references to one array (the cache's and a       *)
(* handler closure's) see each other's in-place writes.                    *)
(***************************************************************************)
EXTENDS Integers, Sequences, FiniteSets, TLC

\* ------------------------------------------------------------------ bounds
MaxTicks == 1
MaxWrites == 1
\* requests started in a run: one at a time (MaxCalls, MaxPairCalls) or
\* overlapping (MaxConcCalls)
MaxCalls == 3
MaxPairCalls == 2
MaxConcCalls == 2

\* request slots and server instances
Procs == {1, 2}

Servers == {1, 2}

\* --------------------------------------------------------------- constants
CACHE_DURATION == 5 * 1000

\* the clock advances in steps of a staleness window
TickMs == CACHE_DURATION

\* built-in tools in the order the initializer registers them
Builtins ==
  << "refresh_custom_tools", "url_validator", "json_formatter",
     "base64_converter", "hash_generator", "timestamp_converter",
     "qr_code_data", "email_validator", "slug_generator", "random_number",
     "text_transform", "generate_color", "generate_uuid",
     "generate_password" >>

BuiltinNames == { Builtins[i] : i \in DOMAIN Builtins }

\* --------------------------------------------------------------- descriptors
\* A header map and an argument bag are sets of <<key, value>> pairs with
\* unique keys.  "null" is SQL NULL / JavaScript null.
NoApiConfig ==
  [defined |-> FALSE, hasUrl |-> FALSE,
   url |-> [origin |-> "", hasQuery |-> FALSE, query |-> {},
            hasFragment |-> FALSE],
   method |-> "GET", hasHeaders |-> FALSE, headers |-> {}]

\* a JSON value of an argument bag or of a ParameterSchema default: a
\* string, a number, a boolean, or null (which also stands for arrays and
\* objects); a number is num, or num + 1/2 when half
Str(s) ==
  [type |-> "string", str |-> s, num |-> 0, half |-> FALSE, bool |-> FALSE]

Num(n) ==
  [type |-> "number", str |-> "", num |-> n, half |-> FALSE, bool |-> FALSE]

Half(n) == [Num(n) EXCEPT !.half = TRUE]

Bool(b) ==
  [type |-> "boolean", str |-> "", num |-> 0, half |-> FALSE, bool |-> b]

Null ==
  [type |-> "null", str |-> "", num |-> 0, half |-> FALSE, bool |-> FALSE]

\* a ParameterSchema: has* tell whether the optional field is present
Param(type) ==
  [type |-> type, hasEnum |-> FALSE, enum |-> {},
   hasMinimum |-> FALSE, minimum |-> 0, hasMaximum |-> FALSE, maximum |-> 0,
   hasDefault |-> FALSE, default |-> Null]

\* a tool schema: properties maps each parameter name to its ParameterSchema
NoSchema == [defined |-> FALSE, properties |-> <<>>, required |-> {}]

SchemaOf(properties, required) ==
  [defined |-> TRUE, properties |-> properties, required |-> required]

ScriptTool ==
  [name |-> "my_tool", customType |-> "normal",
   inputSchema |-> NoSchema, querySchema |-> NoSchema,
   apiConfig |-> NoApiConfig,
   customLogic |-> "throw new Error('boom')", isCustom |-> TRUE]

ApiTool ==
  [name |-> "my_tool", customType |-> "api",
   inputSchema |-> SchemaOf([k \in {"b"} |-> Param("number")], {}),
   querySchema |-> SchemaOf([k \in {"a"} |-> Param("number")], {}),
   apiConfig |-> [defined |-> TRUE, hasUrl |-> TRUE,
                  url |-> [origin |-> "https://api.example.com/x",
                           hasQuery |-> TRUE, query |-> {<<"old", "1">>},
                           hasFragment |-> FALSE],
                  method |-> "POST", hasHeaders |-> TRUE,
                  headers |-> {<<"Authorization", "Bearer t">>}],
   customLogic |-> "", isCustom |-> TRUE]

ShadowTool ==
  [name |-> "hash_generator", customType |-> "normal",
   inputSchema |-> NoSchema, querySchema |-> NoSchema,
   apiConfig |-> NoApiConfig,
   customLogic |-> "return 'ok'", isCustom |-> TRUE]

\* descriptors a client may submit to the tools API
ToolInputs == {ScriptTool, ApiTool, ShadowTool}

\* the names of ToolInputs, in a fixed order
CustomNameSeq == << "hash_generator", "my_tool" >>

CustomNames == { CustomNameSeq[i] : i \in DOMAIN CustomNameSeq }

AllNames == BuiltinNames \cup CustomNames

\* argument bags of an invocation
ArgBags == { {}, {<<"a", Num(1)>>, <<"b", Num(2)>>, <<"c", Num(3)>>} }

Names(tools) == { t.name : t \in tools }

UniqueNames(tools) == \A t1, t2 \in tools : t1.name = t2.name => t1 = t2

Find(tools, n) == CHOOSE t \in tools : t.name = n

VARIABLES
  now,         \* Date.now()
  dbEnabled,   \* isDatabaseEnabled(): USEDB === 'true' && DATABASE_URL set
  store,       \* rows of table custom_tools
  storeVer,    \* number of writes the table has taken (history)
  heap,        \* CustomTool[] arrays ever returned by a load
  toolsCache,  \* module-level cache of route.ts
  servers,     \* McpServer instances handed to the initializer
  procs,       \* requests in flight
  callsLeft,   \* requests still to be started
  slots,       \* requests that may be in flight at once
  lastCheck,   \* the freshness check completed last (history)
  io           \* a single call of the validator or of executeApiTool

vars == <<now, dbEnabled, store, storeVer, heap, toolsCache, servers, procs,
          callsLeft, slots, lastCheck, io>>

\* ------------------------------------------------------------------- store
\* saveToolToDatabase / updateToolInDatabase: the column values of a row
ToRow(tool) ==
  [name |-> tool.name,
   custom_type |-> tool.customType,
   input_schema |-> tool.inputSchema,
   query_schema |-> tool.querySchema,
   api_config |-> tool.apiConfig,
   custom_logic |-> IF tool.customLogic = "" THEN "null" ELSE tool.customLogic]

\* getToolsFromDatabase: a row as a descriptor
RowToTool(row) ==
  [name |-> row.name,
   customType |-> row.custom_type,
   inputSchema |-> row.input_schema,
   querySchema |-> row.query_schema,
   apiConfig |-> row.api_config,
   customLogic |-> row.custom_logic,
   isCustom |-> TRUE]

\* INSERT ... ON CONFLICT (name) DO UPDATE
Upsert(rows, tool) ==
  { r \in rows : r.name # tool.name } \cup { ToRow(tool) }

\* DELETE FROM custom_tools WHERE name = $1
DeleteRow(rows, n) == { r \in rows : r.name # n }

\* an update that inserts the row when no row has the old name
UpdateRowOrInsert(rows, oldName, tool) ==
  IF tool.name # oldName /\ tool.name \in Names(rows) THEN rows
  ELSE { r \in rows : r.name # oldName } \cup { ToRow(tool) }

\* UPDATE custom_tools SET name = $1, ... WHERE name = $8; the UNIQUE
\* constraint on name rejects a rename onto another row's name
UpdateRow(rows, oldName, tool) ==
  IF oldName \notin Names(rows) THEN rows
  ELSE IF tool.name # oldName /\ tool.name \in Names(rows) THEN rows
  ELSE { r \in rows : r.name # oldName } \cup { ToRow(tool) }

\* ---------------------------------------------------------------- executors
\* what the script text does when run as a function body
RunScript(customLogic) ==
  CASE customLogic = "throw new Error('boom')" ->
         [kind |-> "throwError", value |-> "boom"]
    [] customLogic = "return 'ok'" ->
         [kind |-> "string", value |-> "ok"]
    [] OTHER ->
         [kind |-> "undefined", value |-> ""]

\* an envelope: the text block as a sequence of fragments, and isError
\* (FALSE also stands for an absent isError)
Envelope(text, isError) == [text |-> text, isError |-> isError]

NoResult == Envelope(<<>>, FALSE)

ExecuteCustomLogic(tool, params) ==
  IF tool.customLogic = "null" \/ tool.customLogic = ""
  THEN Envelope(<<"Custom Tool ", tool.name, " executed with parameters",
                  "No custom logic defined for this tool.">>, FALSE)
  ELSE LET r == RunScript(tool.customLogic) IN
       CASE r.kind = "throwError" ->
              Envelope(<<"Error executing custom logic: ", r.value,
                         "Please check your JavaScript code for syntax errors.">>,
                       FALSE)
         [] r.kind = "string" -> Envelope(<<r.value>>, FALSE)
         [] OTHER -> Envelope(<<tool.name, " Result: ", "undefined">>, FALSE)

\* isValidParamValue
IsValidParamValue(value) == value.type \in {"string", "number", "boolean"}

\* value !== undefined && value !== '' && isValidParamValue(value); an
\* undefined value is a key the bag does not hold
IsRouted(value) == value # Str("") /\ IsValidParamValue(value)

\* executeApiTool, "Distribute parameters based on their schema definitions"
RouteParams(tool, params) ==
  LET queryKeys == IF tool.querySchema.defined
                   THEN DOMAIN tool.querySchema.properties ELSE {}
      bodyKeys == IF tool.inputSchema.defined
                  THEN DOMAIN tool.inputSchema.properties ELSE {}
      toQuery(k) == \/ k \in queryKeys
                    \/ (k \notin bodyKeys /\ tool.apiConfig.method = "GET")
  IN [queryParams |-> { kv \in params : IsRouted(kv[2]) /\ toQuery(kv[1]) },
      bodyParams |-> { kv \in params : IsRouted(kv[2]) /\ ~toQuery(kv[1]) }]

\* headers['Content-Type'] = 'application/json'
SetHeader(headers, k, v) ==
  { kv \in headers : kv[1] # k } \cup { <<k, v>> }

\* a body built for every method
WritesContentTypeAnyMethod(tool, params) ==
  RouteParams(tool, params).bodyParams # {}

\* whether executeApiTool writes the Content-Type header
WritesContentType(tool, params) ==
  /\ tool.apiConfig.method # "GET"
  /\ RouteParams(tool, params).bodyParams # {}

\* the descriptor after executeApiTool has run on it: `headers` is the
\* descriptor's own object unless apiConfig.headers is undefined
AfterExecuteApiTool(tool, params) ==
  IF WritesContentType(tool, params) /\ tool.apiConfig.hasHeaders
  THEN [tool EXCEPT !.apiConfig.headers =
          SetHeader(@, "Content-Type", "application/json")]
  ELSE tool

\* a URL as the pieces url.split('?') and the URL parser cut it at: the text
\* before the first '?' or '#', the query pairs between a '?' and the next
\* '#', and whether a '#' starts a fragment
Url(origin, hasQuery, query, hasFragment) ==
  [origin |-> origin, hasQuery |-> hasQuery, query |-> query,
   hasFragment |-> hasFragment]

EmptyUrl == Url("", FALSE, {}, FALSE)

\* url.split('?')[0]: the text before the first '?'; a fragment written
\* after a query string goes with it, one written without a query stays
SplitBase(url) ==
  IF url.hasQuery THEN Url(url.origin, FALSE, {}, FALSE)
  ELSE url

\* String(value) of a routed value
String(value) ==
  CASE value.type = "string" -> value.str
    [] value.type = "number" ->
         IF value.half THEN ToString(value.num) \o ".5"
         ELSE ToString(value.num)
    [] value.type = "boolean" -> IF value.bool THEN "true" ELSE "false"
    [] OTHER -> "null"

\* finalUrl: baseUrl, then '?' + urlParams.toString() when queryParams has
\* keys; appended is what the code wrote behind the base, search is
\* new URLSearchParams() filled with urlParams.set(key, String(value))
FinalUrl(url, queryParams) ==
  [base |-> SplitBase(url), appended |-> queryParams # {},
   search |-> { <<kv[1], String(kv[2])>> : kv \in queryParams }]

\* the query string of finalUrl as fetch parses it: text behind a '#' of
\* the base is fragment, whatever it holds
RequestQuery(finalUrl) ==
  IF finalUrl.base.hasFragment THEN {}
  ELSE IF finalUrl.appended THEN finalUrl.search
  ELSE {}

\* fetch resolving a URL without scheme and host against the address of a
\* page, as it does in a browser
AbsoluteUrlRelative(finalUrl) == TRUE

\* whether fetch(finalUrl) can parse finalUrl: the route runs on the
\* server, where a URL without scheme and host has no base to resolve
\* against and fetch rejects before any request is made
AbsoluteUrl(finalUrl) == finalUrl.base.origin # ""

\* JSON.stringify(bodyParams): the text of each routed value, quoted for
\* a string
JsonStringify(bodyParams) ==
  { <<kv[1], [quoted |-> kv[2].type = "string", text |-> String(kv[2])]>> :
      kv \in bodyParams }

\* JSON.parse of a request body, member by member
JsonParse(body) ==
  LET Member(json) ==
        IF json.quoted THEN Str(json.text)
        ELSE IF json.text \in {"true", "false"} THEN Bool(json.text = "true")
        ELSE IF \E n \in 0..9 : ToString(n) = json.text
        THEN Num(CHOOSE n \in 0..9 : ToString(n) = json.text)
        ELSE Half(CHOOSE n \in 0..9 : ToString(n) \o ".5" = json.text)
  IN { <<kv[1], Member(kv[2])>> : kv \in body }

\* the arguments of fetch(finalUrl, {method, headers, body})
Request(tool, params) ==
  LET routed == RouteParams(tool, params)
      headers == IF tool.apiConfig.hasHeaders THEN tool.apiConfig.headers
                 ELSE {}
  IN [finalUrl |-> FinalUrl(tool.apiConfig.url, routed.queryParams),
      method |-> tool.apiConfig.method,
      headers |-> IF WritesContentType(tool, params)
                  THEN SetHeader(headers, "Content-Type", "application/json")
                  ELSE headers,
      hasBody |-> WritesContentType(tool, params),
      body |-> IF WritesContentType(tool, params)
               THEN JsonStringify(routed.bodyParams) ELSE {}]

\* what executeApiTool throws before it calls fetch, "" for nothing
ThrowsBeforeFetch(tool) ==
  IF ~tool.apiConfig.defined THEN "API configuration missing"
  ELSE IF ~tool.apiConfig.hasUrl
       THEN "Cannot read properties of undefined (reading 'split')"
  ELSE ""

\* the result of a tools/call whose handler threw: the server answers
\* with the message of the error, flagged as an error
ToolError(message) == Envelope(<<message>>, TRUE)

\* the response left unflagged
ApiResponseUnflagged(status) == Envelope(<<"response body">>, FALSE)

\* the envelope executeApiTool returns for a response
ApiResponse(status) ==
  IF status < 200 \/ status > 299
  THEN Envelope(<<"API Error ", ToString(status), ": ", "status text", "\n",
                  "response body">>, TRUE)
  ELSE Envelope(<<"response body">>, FALSE)

\* -------------------------------------------------------------- validation
\* major versions of zod the import of route.ts may resolve to
ZodMajors == {3, 4}

\* parameterToZodSchema: the zod schema of a ParameterSchema, before
\* .optional()
ParameterToZodSchema(param) ==
  [base |-> CASE param.type = "string" ->
                   IF param.hasEnum THEN "enum" ELSE "string"
              [] param.type = "number" -> "number"
              [] param.type = "integer" -> "int"
              [] param.type = "boolean" -> "boolean"
              [] OTHER -> "string",
   enum |-> IF param.type = "string" /\ param.hasEnum THEN param.enum ELSE {},
   hasMin |-> param.type \in {"number", "integer"} /\ param.hasMinimum,
   min |-> param.minimum,
   hasMax |-> param.type \in {"number", "integer"} /\ param.hasMaximum,
   max |-> param.maximum,
   hasDefault |-> param.hasDefault,
   default |-> param.default,
   optional |-> FALSE]

\* buildZodSchema: the zod schema of every property of a tool schema
BuildZodSchema(toolSchema) ==
  IF ~toolSchema.defined THEN <<>>
  ELSE [key \in DOMAIN toolSchema.properties |->
          [ParameterToZodSchema(toolSchema.properties[key])
             EXCEPT !.optional = key \notin toolSchema.required]]

\* { ...buildZodSchema(tool.inputSchema), ...buildZodSchema(tool.querySchema) }
AllParams(tool) ==
  LET body == BuildZodSchema(tool.inputSchema)
      query == BuildZodSchema(tool.querySchema)
  IN [key \in DOMAIN body \cup DOMAIN query |->
        IF key \in DOMAIN query THEN query[key] ELSE body[key]]

\* an argument bag as a lookup
HasKey(bag, key) == \E kv \in bag : kv[1] = key

ValueOf(bag, key) == (CHOOSE kv \in bag : kv[1] = key)[2]

\* the result of parsing one key: ok, and the value the output holds when
\* has
Parsed(ok, has, value) == [ok |-> ok, has |-> has, value |-> value]

\* .max() as an exclusive bound
AtMostExclusive(value, bound) == value.num < bound

\* value <= bound for a number, whole or a half above value.num, and a
\* whole bound
AtMost(value, bound) ==
  IF value.half THEN value.num < bound ELSE value.num <= bound

\* z.string(), z.enum(), z.number() with .int() .min() .max(), z.boolean()
\* on a value that is present
ZodBaseAccepts(zs, value) ==
  CASE zs.base = "string" -> value.type = "string"
    [] zs.base = "enum" -> value.type = "string" /\ value.str \in zs.enum
    [] zs.base = "boolean" -> value.type = "boolean"
    [] OTHER -> /\ value.type = "number"
                /\ zs.base = "int" => ~value.half
                /\ zs.hasMin => value.num >= zs.min
                /\ zs.hasMax => AtMost(value, zs.max)

\* schema.default(d) on an omitted key: zod 3 parses d with the inner
\* schema, zod 4 returns d as it is
ZodDefaultParse(zs, major) ==
  IF major = 3
  THEN Parsed(ZodBaseAccepts(zs, zs.default), TRUE, zs.default)
  ELSE Parsed(TRUE, TRUE, zs.default)

\* the zod schema of one key applied to the bag.  On an omitted key
\* .optional() of zod 3 answers undefined without consulting the schema it
\* wraps; .optional() of zod 4 consults a wrapped .default().
ZodParseKey(zs, args, key, major) ==
  IF HasKey(args, key)
  THEN Parsed(ZodBaseAccepts(zs, ValueOf(args, key)), TRUE, ValueOf(args, key))
  ELSE IF zs.optional /\ (major = 3 \/ ~zs.hasDefault)
  THEN Parsed(TRUE, FALSE, Null)
  ELSE IF zs.hasDefault THEN ZodDefaultParse(zs, major)
  ELSE Parsed(FALSE, FALSE, Null)

\* z.object(shape).safeParse(args) as McpServer runs it before the handler:
\* the keys with an issue, and the parsed object, which holds the keys of
\* the shape only
ZodIssues(shape, args, major) ==
  { key \in DOMAIN shape : ~ZodParseKey(shape[key], args, key, major).ok }

ZodData(shape, args, major) ==
  { <<key, ZodParseKey(shape[key], args, key, major).value>> :
      key \in { k \in DOMAIN shape : ZodParseKey(shape[k], args, k, major).has } }

\* ----------------------------------------------------------------- servers
NoHandler == [kind |-> "none", snap |-> 0]

BuiltinHandler == [kind |-> "builtin", snap |-> 0]

\* the handler closure of registerCustomTools keeps `tool`, an element of
\* the array heap[snap]
CustomHandler(snap) == [kind |-> "custom", snap |-> snap]

\* McpServer.tool(name, ...) throws when the name is already registered
ToolThrows(srv, n) == servers[srv].tools[n].kind # "none"

\* ------------------------------------------------------------------ cache
\* a load that installs the array but leaves the cache without a time
InstalledCacheUnstamped(tools, lnow) ==
  [tools |-> tools, timestamp |-> 0, registered |-> {}]

\* "Update cache"
InstalledCache(tools, lnow) ==
  [tools |-> tools, timestamp |-> lnow, registered |-> {}]

IsFresh(c) == c.timestamp > 0 /\ (now - c.timestamp) < CACHE_DURATION

\* the staleness test of the custom tool handler
HandlerStale(c) ==
  c.timestamp = 0 \/ (now - c.timestamp) >= CACHE_DURATION

\* an array returned by a load: its descriptors; and as history the
\* descriptors as the load returned them, the number of writes the table had
\* taken when it was read, and the request slot that read it (0 once that
\* request has returned)
Snapshot(tools, readVer, reader) ==
  [tools |-> tools, asRead |-> tools, readVer |-> readVer, reader |-> reader]

\* --------------------------------------------------------------- requests
IdleProc ==
  [pc |-> "idle", op |-> "none", srv |-> 0, name |-> "", clo |-> 0,
   force |-> FALSE, ctx |-> "idle", lnow |-> 0,
   dbres |-> "none", rows |-> {}, rowsVer |-> 0, tools |-> 0,
   found |-> FALSE, ran |-> "none", result |-> NoResult,
   \* history of the request
   startVer |-> 0, startStale |-> FALSE, startGone |-> FALSE,
   lists |-> 0, fails |-> 0, isCheck |-> FALSE, second |-> "no"]

NoCheck == [kind |-> "none", at |-> 0]

Start(calls, inFlight) ==
  /\ callsLeft = calls
  /\ slots = inFlight
  /\ now = TickMs
  /\ dbEnabled \in BOOLEAN
  /\ store \in { rows \in SUBSET { ToRow(t) : t \in ToolInputs } :
                   UniqueNames(rows) /\ (~dbEnabled => rows = {}) }
  /\ storeVer = 0
  /\ heap = << Snapshot({}, 0, 0) >>
  /\ toolsCache = [tools |-> 1, timestamp |-> 0, registered |-> {}]
  /\ servers = [s \in Servers |->
                  [state |-> "none", tools |-> [n \in AllNames |-> NoHandler]]]
  /\ procs = [p \in Procs |-> IdleProc]
  /\ lastCheck = NoCheck

NoIo == [fn |-> "none"]

\* requests are served one at a time
Init == Start(MaxCalls, 1) /\ io = NoIo

InitPair == Start(MaxPairCalls, 1) /\ io = NoIo

\* requests overlap
InitConc == Start(MaxConcCalls, Cardinality(Procs)) /\ io = NoIo

\* ---------------------------------------------------- garbage collection
\* The arrays are numbered in the order in which the cache, the handler
\* closures and the requests refer to them; an array nothing refers to is
\* dropped.
ProcSeq == << 1, 2 >>

ServerSeq == << 1, 2 >>

RECURSIVE Flatten(_)
Flatten(ss) == IF ss = <<>> THEN <<>> ELSE Head(ss) \o Flatten(Tail(ss))

RefSeq(c, sv, pr) ==
  <<c.tools>>
  \o Flatten([i \in DOMAIN ServerSeq |->
       [j \in DOMAIN CustomNameSeq |->
          sv[ServerSeq[i]].tools[CustomNameSeq[j]].snap]])
  \o Flatten([i \in DOMAIN ProcSeq |->
       << pr[ProcSeq[i]].tools, pr[ProcSeq[i]].clo >>])

RECURSIVE Dedup(_, _)
Dedup(seq, seen) ==
  IF seq = <<>> THEN <<>>
  ELSE IF Head(seq) = 0 \/ Head(seq) \in seen THEN Dedup(Tail(seq), seen)
  ELSE <<Head(seq)>> \o Dedup(Tail(seq), seen \cup {Head(seq)})

\* the next state, given the heap h, the cache c, the servers sv and the
\* requests pr an action leaves behind
Renumbering(h, live) ==
  [i \in 0..Len(h) |->
     IF \E k \in DOMAIN live : live[k] = i
     THEN CHOOSE k \in DOMAIN live : live[k] = i
     ELSE 0]

Commit(h, c, sv, pr) ==
  \E live \in { Dedup(RefSeq(c, sv, pr), {}) } :
  \E ren \in { Renumbering(h, live) } :
     /\ heap' = [k \in DOMAIN live |-> h[live[k]]]
     /\ toolsCache' = [c EXCEPT !.tools = ren[@]]
     /\ servers' = [s \in Servers |->
          [sv[s] EXCEPT !.tools = [n \in AllNames |->
             IF n \in CustomNames
             THEN [sv[s].tools[n] EXCEPT !.snap = ren[@]]
             ELSE sv[s].tools[n]]]]
     /\ procs' = [p \in Procs |->
          [pr[p] EXCEPT !.tools = ren[@], !.clo = ren[@]]]

\* ------------------------------------------------------------------ actions
Tick ==
  /\ now < TickMs * (MaxTicks + 1)
  /\ now' = now + TickMs
  /\ UNCHANGED <<dbEnabled, store, storeVer, heap, toolsCache, servers, procs,
                 callsLeft, slots, io, lastCheck>>

\* POST /api/tools
ApiPost(tool) ==
  /\ dbEnabled
  /\ storeVer < MaxWrites
  /\ Upsert(store, tool) # store
  /\ store' = Upsert(store, tool)
  /\ storeVer' = storeVer + 1
  /\ UNCHANGED <<now, dbEnabled, heap, toolsCache, servers, procs, callsLeft,
                 slots, io, lastCheck>>

\* PUT /api/tools
ApiPut(oldName, tool) ==
  /\ dbEnabled
  /\ storeVer < MaxWrites
  /\ UpdateRow(store, oldName, tool) # store
  /\ store' = UpdateRow(store, oldName, tool)
  /\ storeVer' = storeVer + 1
  /\ UNCHANGED <<now, dbEnabled, heap, toolsCache, servers, procs, callsLeft,
                 slots, io, lastCheck>>

\* DELETE /api/tools
ApiDelete(n) ==
  /\ dbEnabled
  /\ storeVer < MaxWrites
  /\ DeleteRow(store, n) # store
  /\ store' = DeleteRow(store, n)
  /\ storeVer' = storeVer + 1
  /\ UNCHANGED <<now, dbEnabled, heap, toolsCache, servers, procs, callsLeft,
                 slots, io, lastCheck>>

\* whether the freshness check that starts now follows the last completed
\* one within the staleness window (history)
SecondOf(chk) ==
  IF chk.kind # "none" /\ (now - chk.at) < CACHE_DURATION
  THEN chk.kind ELSE "no"

\* loadCustomTools(forceReload) up to its first await, run by request p
\* whose record so far is pr, on the cache c; ctx is where its caller
\* resumes; isCheck: the call is a freshness check.  The heap, the cache,
\* the request and the last check it leaves behind.
LoadSync(p, pr, c, forceReload, ctx, isCheck) ==
  LET sec == IF isCheck THEN SecondOf(lastCheck) ELSE "no" IN
  IF ~forceReload /\ IsFresh(c)
  THEN [heap |-> heap, cache |-> c,
        proc |-> [pr EXCEPT !.pc = ctx, !.tools = c.tools, !.second = sec],
        chk |-> [kind |-> "hit", at |-> now]]
  ELSE IF dbEnabled
  THEN [heap |-> heap, cache |-> c,
        proc |-> [pr EXCEPT !.pc = "dbWait", !.ctx = ctx, !.lnow = now,
                            !.dbres = "none", !.lists = @ + 1,
                            !.second = sec, !.isCheck = isCheck],
        chk |-> NoCheck]
  ELSE [heap |-> Append(heap, Snapshot({}, storeVer, p)),
        cache |-> InstalledCache(Len(heap) + 1, now),
        proc |-> [pr EXCEPT !.pc = ctx, !.tools = Len(heap) + 1,
                            !.second = sec],
        chk |-> IF isCheck THEN [kind |-> "noDb", at |-> now]
                ELSE NoCheck]

\* the database answers SELECT * FROM custom_tools
DbQueryOk(p) ==
  /\ procs[p].pc = "dbWait"
  /\ procs[p].dbres = "none"
  /\ procs' = [procs EXCEPT ![p].dbres = "ok",
                            ![p].rows = { RowToTool(r) : r \in store },
                            ![p].rowsVer = storeVer]
  /\ UNCHANGED <<now, dbEnabled, store, storeVer, heap, toolsCache, servers,
                 callsLeft, slots, io, lastCheck>>

\* the last completed check once request p's load has ended as kind
\* (history): none while another load is in flight
CheckDone(p, kind) ==
  IF procs[p].isCheck /\ \A q \in Procs \ {p} : procs[q].pc # "dbWait"
  THEN [kind |-> kind, at |-> procs[p].lnow]
  ELSE NoCheck

\* loadCustomTools after `await getToolsFromDatabase()`: "Update cache"
LoadInstall(p) ==
  /\ procs[p].pc = "dbWait"
  /\ procs[p].dbres = "ok"
  /\ Commit(Append(heap, Snapshot(procs[p].rows, procs[p].rowsVer, p)),
            InstalledCache(Len(heap) + 1, procs[p].lnow),
            servers,
            [procs EXCEPT ![p].pc = procs[p].ctx,
                          ![p].tools = Len(heap) + 1,
                          ![p].ctx = "idle",
                          ![p].lnow = 0,
                          ![p].isCheck = FALSE,
                          ![p].dbres = "none",
                          ![p].rows = {},
                          ![p].rowsVer = 0,
                          ![p].second = "no"])
  /\ lastCheck' = CheckDone(p, "refreshed")
  /\ UNCHANGED <<now, dbEnabled, store, storeVer, callsLeft, slots, io>>

\* the value loadCustomTools returns from its catch block
CatchReturn(c) == c.tools

\* a catch block that marks the cache as never filled
CatchCacheCleared(c) == [c EXCEPT !.timestamp = 0]

\* the cache loadCustomTools leaves behind from its catch block
CatchCache(c) == c

\* loadCustomTools when getToolsFromDatabase rejects: the catch block
LoadCatch(p) ==
  /\ procs[p].pc = "dbWait"
  /\ procs[p].dbres = "none"
  /\ Commit(heap, CatchCache(toolsCache), servers,
            [procs EXCEPT ![p].pc = procs[p].ctx,
                          ![p].tools = CatchReturn(toolsCache),
                          ![p].ctx = "idle",
                          ![p].lnow = 0,
                          ![p].isCheck = FALSE,
                          ![p].fails = @ + 1,
                          ![p].second = "no"])
  /\ lastCheck' = CheckDone(p, "failed")
  /\ UNCHANGED <<now, dbEnabled, store, storeVer, callsLeft, slots, io>>

\* where the caller of registerCustomTools resumes
AfterRegister(op) ==
  IF op = "call" THEN "callAwait1" ELSE "refreshAwait1"

\* the descriptors of customTools for which registerCustomTools calls
\* server.tool
Attempted(customTools, forceReload, c) ==
  { t \in customTools : forceReload \/ t.name \notin c.registered }

\* the names registerCustomTools registers on server srv: server.tool did
\* not throw
Added(customTools, forceReload, c, srv) ==
  { t.name : t \in { u \in Attempted(customTools, forceReload, c) :
                       ~ToolThrows(srv, u.name) } }

\* the tools of a server once handlers for the names in added, closed over
\* the array snap, are registered
WithCustom(tools, added, snap) ==
  [n \in AllNames |-> IF n \in added THEN CustomHandler(snap) ELSE tools[n]]

\* registerCustomTools after `await loadCustomTools(forceReload)`, called
\* from a handler: forEach
RegisterCustom(p) ==
  LET pr == procs[p]
      added == Added(heap[pr.tools].tools, pr.force, toolsCache, pr.srv)
  IN /\ pr.pc = "regAwait"
     /\ pr.op # "init"
     /\ Commit(heap,
               [toolsCache EXCEPT !.registered = @ \cup added],
               [servers EXCEPT ![pr.srv].tools =
                  WithCustom(@, added, pr.tools)],
               [procs EXCEPT ![p].pc = AfterRegister(pr.op),
                             ![p].force = FALSE,
                             ![p].second = "no"])
     /\ UNCHANGED <<now, dbEnabled, store, storeVer, callsLeft, slots, io, lastCheck>>

\* a request takes the first free slot
CanStart(p) ==
  /\ p <= slots
  /\ procs[p].pc = "idle"
  /\ \A q \in Procs : q < p => procs[q].pc # "idle"
  /\ callsLeft > 0

\* the initializer is handed a new server: registerCustomTools(server)
StartInit(p, s) ==
  /\ CanStart(p)
  /\ servers[s].state = "none"
  /\ \A t \in Servers : t < s => servers[t].state # "none"
  /\ callsLeft' = callsLeft - 1
  /\ \E r \in { LoadSync(p, [IdleProc EXCEPT !.op = "init", !.srv = s,
                                           !.startVer = storeVer],
                       toolsCache, FALSE, "regAwait", TRUE) } :
        /\ Commit(r.heap, r.cache,
                  [servers EXCEPT ![s].state = "initializing"],
                  [procs EXCEPT ![p] = r.proc])
        /\ lastCheck' = r.chk
  /\ UNCHANGED <<now, dbEnabled, store, storeVer, slots, io>>

\* the built-in server.tool calls of the initializer, in order, on the
\* tools of a server: the first call that throws ends the initializer
RECURSIVE BuiltinsRegistered(_, _)
BuiltinsRegistered(tools, i) ==
  IF i > Len(Builtins) \/ tools[Builtins[i]].kind # "none" THEN {}
  ELSE { Builtins[i] } \cup BuiltinsRegistered(tools, i + 1)

WithBuiltins(tools) ==
  [n \in AllNames |->
     IF n \in BuiltinsRegistered(tools, 1) THEN BuiltinHandler ELSE tools[n]]

\* the initializer after `await loadCustomTools(false)`: the forEach of
\* registerCustomTools and, the server being known to no other request
\* yet, the built-in server.tool calls that follow
InitRegister(p) ==
  LET pr == procs[p]
      added == Added(heap[pr.tools].tools, FALSE, toolsCache, pr.srv)
      tools == WithCustom(servers[pr.srv].tools, added, pr.tools)
  IN /\ pr.pc = "regAwait"
     /\ pr.op = "init"
     /\ Commit(heap,
               [toolsCache EXCEPT !.registered = @ \cup added],
               [servers EXCEPT
                  ![pr.srv].tools = WithBuiltins(tools),
                  ![pr.srv].state =
                     IF BuiltinsRegistered(tools, 1) = BuiltinNames
                     THEN "ready" ELSE "failed"],
               [procs EXCEPT ![p].pc = "done", ![p].second = "no"])
     /\ UNCHANGED <<now, dbEnabled, store, storeVer, callsLeft, slots, io, lastCheck>>

\* a request record at the start of a tools/call for name n on server s
CallProc(op, s, n) ==
  [IdleProc EXCEPT !.op = op, !.srv = s, !.name = n,
                   !.clo = servers[s].tools[n].snap,
                   !.startVer = storeVer,
                   !.startStale = ~IsFresh(toolsCache),
                   !.startGone = /\ n \notin Names(store)
                                 /\ n \notin Names(heap[toolsCache.tools].tools)
                                 /\ IsFresh(toolsCache)]

\* tools/call of a custom tool: the handler up to its first await
StartCustom(p, s, n) ==
  /\ CanStart(p)
  /\ servers[s].state = "ready"
  /\ servers[s].tools[n].kind = "custom"
  /\ callsLeft' = callsLeft - 1
  /\ \E r \in { IF HandlerStale(toolsCache)
              THEN LoadSync(p, [CallProc("call", s, n) EXCEPT !.force = TRUE],
                            toolsCache, TRUE, "regAwait", TRUE)
              ELSE LoadSync(p, CallProc("call", s, n), toolsCache, FALSE,
                            "callAwait2", TRUE) } :
        /\ Commit(r.heap, r.cache, servers, [procs EXCEPT ![p] = r.proc])
        /\ lastCheck' = r.chk
  /\ UNCHANGED <<now, dbEnabled, store, storeVer, slots, io>>

\* the handler after `await registerCustomTools(server, true)`:
\* loadCustomTools()
CallAfterRegister(p) ==
  /\ procs[p].pc = "callAwait1"
  /\ \E r \in { LoadSync(p, procs[p], toolsCache, FALSE, "callAwait2", TRUE) } :
        /\ Commit(r.heap, r.cache, servers, [procs EXCEPT ![p] = r.proc])
        /\ lastCheck' = r.chk
  /\ UNCHANGED <<now, dbEnabled, store, storeVer, callsLeft, slots, io>>

\* currentTools.find(t => t.name === tool.name) || tool: the array that
\* holds the descriptor the handler executes
CurrentToolSnap(currentTools, clo, n) ==
  IF n \in Names(heap[currentTools].tools) THEN currentTools ELSE clo

ExecSnap(pr) == IF pr.found THEN pr.tools ELSE pr.clo

\* the handler after `await loadCustomTools()`: a custom-logic descriptor,
\* executeCustomLogic
CallScript(p, params) ==
  LET pr == procs[p]
      snap == CurrentToolSnap(pr.tools, pr.clo, pr.name)
      currentTool == Find(heap[snap].tools, pr.name)
  IN /\ pr.pc = "callAwait2"
     /\ currentTool.customType # "api"
     /\ procs' = [procs EXCEPT ![p] =
          [pr EXCEPT !.pc = "done",
                     !.found = (snap = pr.tools),
                     !.ran = "script",
                     !.second = "no",
                     !.result = ExecuteCustomLogic(currentTool, params)]]
     /\ UNCHANGED <<now, dbEnabled, store, storeVer, heap, toolsCache,
                    servers, callsLeft, slots, io, lastCheck>>

\* the handler after `await loadCustomTools()`: an API descriptor,
\* executeApiTool; status is the status of the response to its fetch
CallApi(p, params, status) ==
  LET pr == procs[p]
      snap == CurrentToolSnap(pr.tools, pr.clo, pr.name)
      currentTool == Find(heap[snap].tools, pr.name)
  IN /\ pr.pc = "callAwait2"
     /\ currentTool.customType = "api"
     /\ IF ~currentTool.apiConfig.defined
        THEN /\ procs' = [procs EXCEPT ![p] =
                  [pr EXCEPT !.pc = "done", !.found = (snap = pr.tools),
                             !.second = "no", !.ran = "threw",
                             !.result =
                               ToolError(ThrowsBeforeFetch(currentTool))]]
             /\ heap' = heap
        ELSE /\ procs' = [procs EXCEPT ![p] =
                  [pr EXCEPT !.pc = "done", !.found = (snap = pr.tools),
                             !.second = "no", !.ran = "api",
                             !.result = ApiResponse(status)]]
             /\ heap' = [heap EXCEPT ![snap].tools =
                  (@ \ {currentTool})
                    \cup {AfterExecuteApiTool(currentTool, params)}]
     /\ UNCHANGED <<now, dbEnabled, store, storeVer, toolsCache, servers,
                    callsLeft, slots, io, lastCheck>>

\* tools/call of refresh_custom_tools up to its first await
StartRefresh(p, s) ==
  /\ CanStart(p)
  /\ servers[s].state = "ready"
  /\ servers[s].tools["refresh_custom_tools"].kind = "builtin"
  /\ callsLeft' = callsLeft - 1
  /\ \E r \in { LoadSync(p, [CallProc("refresh", s, "refresh_custom_tools")
                             EXCEPT !.force = TRUE],
                       [toolsCache EXCEPT !.timestamp = 0, !.registered = {}],
                       TRUE, "regAwait", FALSE) } :
        /\ Commit(r.heap, r.cache, servers, [procs EXCEPT ![p] = r.proc])
        /\ lastCheck' = r.chk
  /\ UNCHANGED <<now, dbEnabled, store, storeVer, slots, io>>

\* refresh_custom_tools after `await registerCustomTools(server, true)`:
\* loadCustomTools(true)
RefreshAfterRegister(p) ==
  /\ procs[p].pc = "refreshAwait1"
  /\ \E r \in { LoadSync(p, procs[p], toolsCache, TRUE, "refreshAwait2", FALSE) } :
        /\ Commit(r.heap, r.cache, servers, [procs EXCEPT ![p] = r.proc])
        /\ lastCheck' = r.chk
  /\ UNCHANGED <<now, dbEnabled, store, storeVer, callsLeft, slots, io>>

\* the summary of refresh_custom_tools: a heading, then one line per tool
RefreshSummary(currentTools) ==
  <<"Custom tools cache refreshed successfully!">>
  \o SelectSeq(CustomNameSeq, LAMBDA n : n \in Names(currentTools))

\* refresh_custom_tools after `await loadCustomTools(true)`: the summary
RefreshDone(p) ==
  /\ procs[p].pc = "refreshAwait2"
  /\ procs' = [procs EXCEPT ![p].pc = "done",
                            ![p].ran = "builtin",
                            ![p].result = Envelope(
                               RefreshSummary(heap[procs[p].tools].tools),
                               FALSE)]
  /\ UNCHANGED <<now, dbEnabled, store, storeVer, heap, toolsCache, servers,
                 callsLeft, slots, io, lastCheck>>

\* tools/call of another built-in tool
CallBuiltin(p, s, n) ==
  /\ CanStart(p)
  /\ servers[s].state = "ready"
  /\ n # "refresh_custom_tools"
  /\ servers[s].tools[n].kind = "builtin"
  /\ callsLeft' = callsLeft - 1
  /\ procs' = [procs EXCEPT ![p] =
       [CallProc("builtin", s, n) EXCEPT !.pc = "done", !.ran = "builtin",
                                         !.result = Envelope(<<n>>, FALSE)]]
  /\ UNCHANGED <<now, dbEnabled, store, storeVer, heap, toolsCache, servers,
                 slots, io, lastCheck>>

\* tools/call of a name the server has no handler for
CallUnknown(p, s, n) ==
  /\ CanStart(p)
  /\ servers[s].state = "ready"
  /\ servers[s].tools[n].kind = "none"
  /\ callsLeft' = callsLeft - 1
  /\ procs' = [procs EXCEPT ![p] =
       [CallProc("unknown", s, n) EXCEPT !.pc = "done", !.ran = "notFound",
            !.result = Envelope(<<"Tool ", n, " not found">>, TRUE)]]
  /\ UNCHANGED <<now, dbEnabled, store, storeVer, heap, toolsCache, servers,
                 slots, io, lastCheck>>

\* the response of a finished request is sent
Return(p) ==
  /\ procs[p].pc = "done"
  /\ Commit([i \in DOMAIN heap |->
               IF heap[i].reader = p THEN [heap[i] EXCEPT !.reader = 0]
               ELSE heap[i]],
            toolsCache, servers, [procs EXCEPT ![p] = IdleProc])
  /\ UNCHANGED <<now, dbEnabled, store, storeVer, callsLeft, slots, io, lastCheck>>

\* built-in tools a client calls
CalledBuiltins == BuiltinNames \cap CustomNames

Next ==
  \/ Tick
  \/ \E t \in ToolInputs : ApiPost(t)
  \/ \E n \in CustomNames, t \in ToolInputs : ApiPut(n, t)
  \/ \E n \in CustomNames : ApiDelete(n)
  \/ \E p \in Procs, s \in Servers : StartInit(p, s)
  \/ \E p \in Procs : DbQueryOk(p)
  \/ \E p \in Procs : LoadInstall(p)
  \/ \E p \in Procs : LoadCatch(p)
  \/ \E p \in Procs : RegisterCustom(p)
  \/ \E p \in Procs : InitRegister(p)
  \/ \E p \in Procs, s \in Servers, n \in CustomNames : StartCustom(p, s, n)
  \/ \E p \in Procs : CallAfterRegister(p)
  \/ \E p \in Procs, a \in ArgBags : CallScript(p, a)
  \/ \E p \in Procs, a \in ArgBags, status \in {200, 500} :
       CallApi(p, a, status)
  \/ \E p \in Procs, s \in Servers : StartRefresh(p, s)
  \/ \E p \in Procs : RefreshAfterRegister(p)
  \/ \E p \in Procs : RefreshDone(p)
  \/ \E p \in Procs, s \in Servers, n \in CalledBuiltins : CallBuiltin(p, s, n)
  \/ \E p \in Procs, s \in Servers, n \in CustomNames : CallUnknown(p, s, n)
  \/ \E p \in Procs : Return(p)

Spec == Init /\ [][Next]_vars

SpecPair == InitPair /\ [][Next]_vars

SpecConc == InitConc /\ [][Next]_vars

\* ------------------------------------------------- one validated tools/call
\* ParameterSchemas of the parameter "name"
EnumParam(type) == [Param(type) EXCEPT !.hasEnum = TRUE,
                                       !.enum = {"red", "Green"}]

DefaultParam(type, value) == [Param(type) EXCEPT !.hasDefault = TRUE,
                                                 !.default = value]

RangeParam(type, minimum, maximum) ==
  [Param(type) EXCEPT !.hasMinimum = TRUE, !.minimum = minimum,
                      !.hasMaximum = TRUE, !.maximum = maximum]

ParamInputs ==
  { Param("string"), EnumParam("string"), EnumParam("number"),
    EnumParam("text"), DefaultParam("string", Str("anon")),
    DefaultParam("number", Num(7)),
    RangeParam("number", 1, 3), RangeParam("integer", 1, 3),
    RangeParam("integer", 0, 0) }

\* tool schemas that declare "name", required or not
SchemaInputs ==
  { NoSchema } \cup
  { SchemaOf([k \in {"name"} |-> param], required) :
      param \in ParamInputs, required \in { {}, {"name"} } }

\* descriptors registered with server.tool
ValidatedTools ==
  { [base EXCEPT !.inputSchema = body, !.querySchema = query] :
      base \in {ScriptTool, ApiTool},
      body \in SchemaInputs, query \in SchemaInputs }

\* the arguments of a tools/call
ValidatedArgs ==
  { {} } \cup
  { { <<"name", value>> } :
      value \in { Str("red"), Str("RED"), Str(""), Num(1), Null,
                  Num(0), Num(3), Num(4), Half(0), Half(1), Half(3) } }

\* a tools/call of `tool` as McpServer receives it
Received(tool, args, major) ==
  [fn |-> "call", stage |-> "received", tool |-> tool, args |-> args,
   major |-> major, issues |-> {}, params |-> {}, ran |-> "none"]

InitValidate ==
  /\ Start(0, 0)
  /\ ~dbEnabled
  /\ io \in { Received(tool, args, major) :
                tool \in ValidatedTools, args \in ValidatedArgs,
                major \in ZodMajors }

\* McpServer validates the arguments with z.object(allParams): an error
\* response that carries the issues, or the parsed object for the handler
SdkValidate ==
  /\ io.fn = "call"
  /\ io.stage = "received"
  /\ \E issues \in { ZodIssues(AllParams(io.tool), io.args, io.major) } :
        io' = IF issues # {}
              THEN [io EXCEPT !.stage = "rejected", !.issues = issues]
              ELSE [io EXCEPT !.stage = "validated",
                      !.params = ZodData(AllParams(io.tool), io.args, io.major)]
  /\ UNCHANGED <<now, dbEnabled, store, storeVer, heap, toolsCache, servers,
                 procs, callsLeft, slots, lastCheck>>

\* the handler is called with the parsed object and hands it to the executor
\* of the descriptor
HandlerRuns ==
  /\ io.fn = "call"
  /\ io.stage = "validated"
  /\ io' = [io EXCEPT !.stage = "executed",
                      !.ran = IF io.tool.customType = "api"
                              THEN "api" ELSE "script"]
  /\ UNCHANGED <<now, dbEnabled, store, storeVer, heap, toolsCache, servers,
                 procs, callsLeft, slots, lastCheck>>

NextValidate == SdkValidate \/ HandlerRuns

SpecValidate == InitValidate /\ [][NextValidate]_vars

\* ---------------------------------------------------------- executeApiTool
\* One run of executeApiTool(tool, params), over descriptors as the store
\* can hold them (POST /api/tools stores any apiConfig it is sent).
ApiUrls ==
  { Url("https://api.example.com/x", FALSE, {}, FALSE),
    Url("https://api.example.com/x", TRUE, {<<"old", "1">>}, FALSE),
    Url("https://api.example.com/x", FALSE, {}, TRUE),
    EmptyUrl }

ApiMethods == {"GET", "POST"}

\* apiConfig.headers: undefined, without and with a Content-Type
ApiHeaders ==
  { [has |-> FALSE, map |-> {}],
    [has |-> TRUE, map |-> {<<"Authorization", "Bearer t">>}],
    [has |-> TRUE, map |-> {<<"Content-Type", "text/plain">>}] }

ApiConfigs ==
  {NoApiConfig}
    \cup { [defined |-> TRUE, hasUrl |-> FALSE, url |-> EmptyUrl,
            method |-> m, hasHeaders |-> FALSE, headers |-> {}] :
            m \in ApiMethods }
    \cup { [defined |-> TRUE, hasUrl |-> TRUE, url |-> u, method |-> m,
            hasHeaders |-> h.has, headers |-> h.map] :
            u \in ApiUrls, m \in ApiMethods, h \in ApiHeaders }

\* with the schemas of ApiTool (query a, body b) and with none
ApiTools ==
  { [ApiTool EXCEPT !.apiConfig = c]  : c \in ApiConfigs }
    \cup { [ApiTool EXCEPT !.apiConfig = c, !.inputSchema = NoSchema,
                           !.querySchema = NoSchema] : c \in ApiConfigs }

ApiParams ==
  { {},
    {<<"a", Num(1)>>, <<"b", Num(2)>>, <<"c", Num(3)>>},
    {<<"a", Str("")>>, <<"b", Num(2)>>},
    {<<"a", Bool(TRUE)>>},
    {<<"b", Str("x")>>, <<"c", Null>>} }

ApiStatuses == {200, 404, 500}

\* executeApiTool(tool, params) has been called; status is the status of
\* the response, 0 while there is none
ApiCalled(tool, params) ==
  [fn |-> "api", stage |-> "called", tool |-> tool, params |-> params,
   routed |-> [queryParams |-> {}, bodyParams |-> {}],
   fetches |-> 0,
   request |-> [finalUrl |-> FinalUrl(EmptyUrl, {}), method |-> "GET",
                headers |-> {}, hasBody |-> FALSE, body |-> {}],
   after |-> tool,
   status |-> 0, result |-> NoResult]

InitApi ==
  /\ Start(0, 0)
  /\ ~dbEnabled
  /\ io \in { ApiCalled(tool, params) : tool \in ApiTools,
                                        params \in ApiParams }

\* executeApiTool up to `await fetch(...)`: it throws, or fetch rejects a
\* URL it cannot parse, or the request goes out
ApiFetch ==
  /\ io.fn = "api"
  /\ io.stage = "called"
  /\ \E request \in { Request(io.tool, io.params) } :
       io' = IF ThrowsBeforeFetch(io.tool) # ""
             THEN [io EXCEPT !.stage = "done",
                     !.result = ToolError(ThrowsBeforeFetch(io.tool))]
             ELSE IF ~AbsoluteUrl(request.finalUrl)
             THEN [io EXCEPT !.stage = "done",
                     !.routed = RouteParams(io.tool, io.params),
                     !.after = AfterExecuteApiTool(io.tool, io.params),
                     !.result = ToolError("Failed to parse URL")]
             ELSE [io EXCEPT !.stage = "fetching", !.fetches = @ + 1,
                     !.request = request,
                     !.routed = RouteParams(io.tool, io.params),
                     !.after = AfterExecuteApiTool(io.tool, io.params)]
  /\ UNCHANGED <<now, dbEnabled, store, storeVer, heap, toolsCache, servers,
                 procs, callsLeft, slots, lastCheck>>

\* the response arrives: executeApiTool from `await response.text()` on
ApiRespond(status) ==
  /\ io.fn = "api"
  /\ io.stage = "fetching"
  /\ io' = [io EXCEPT !.stage = "done", !.status = status,
                      !.result = ApiResponse(status)]
  /\ UNCHANGED <<now, dbEnabled, store, storeVer, heap, toolsCache, servers,
                 procs, callsLeft, slots, lastCheck>>

\* no response arrives: `await fetch(...)` throws
ApiFetchRejects ==
  /\ io.fn = "api"
  /\ io.stage = "fetching"
  /\ io' = [io EXCEPT !.stage = "done",
                      !.result = ToolError("fetch failed")]
  /\ UNCHANGED <<now, dbEnabled, store, storeVer, heap, toolsCache, servers,
                 procs, callsLeft, slots, lastCheck>>

NextApi ==
  \/ ApiFetch
  \/ \E status \in ApiStatuses : ApiRespond(status)
  \/ ApiFetchRejects

SpecApi == InitApi /\ [][NextApi]_vars

\* ------------------------------------------------ the scope of a script
\* One run of the function executeCustomLogic builds from a script text.
\* A script is the identifiers it refers to, in the order it evaluates them.
SafeGlobalKeys ==
  { "console", "JSON", "Math", "Date", "String", "Number", "Boolean",
    "Array", "Object", "RegExp", "parseInt", "parseFloat", "isNaN",
    "isFinite", "encodeURIComponent", "decodeURIComponent", "btoa", "atob" }

\* names the global object of the server process binds, among those a
\* script may try; require and fs are bindings of a module, not of the
\* global object
HostGlobals == SafeGlobalKeys \cup {"process", "fetch", "setTimeout", "globalThis"}

ScriptIdentifiers ==
  { "params", "globals", "JSON", "btoa", "process", "fetch", "setTimeout",
    "globalThis", "require", "fs" }

MaxRefs == 2

ScriptInputs ==
  UNION { [1..n -> ScriptIdentifiers] : n \in 1..MaxRefs }

\* the scope chain of a function made by `new Function`: its own
\* declarations (the parameters of the wrapping functions and the
\* constants declared from safeGlobals), then the global scope, and
\* nothing of the module that called new Function
ResolveIdentifier(identifier) ==
  IF identifier \in {"params", "globals"} \cup SafeGlobalKeys THEN "local"
  ELSE IF identifier \in HostGlobals THEN "global"
  ELSE "ReferenceError"

InitScript ==
  /\ Start(0, 0)
  /\ ~dbEnabled
  /\ io \in { [fn |-> "script", refs |-> refs, pos |-> 0, reached |-> {},
                threw |-> FALSE] : refs \in ScriptInputs }

\* the script evaluates its next identifier
ScriptRefers ==
  /\ io.fn = "script"
  /\ io.pos < Len(io.refs)
  /\ ~io.threw
  /\ LET identifier == io.refs[io.pos + 1]
     IN io' = IF ResolveIdentifier(identifier) = "ReferenceError"
              THEN [io EXCEPT !.pos = @ + 1, !.threw = TRUE]
              ELSE [io EXCEPT !.pos = @ + 1,
                              !.reached = @ \cup {identifier}]
  /\ UNCHANGED <<now, dbEnabled, store, storeVer, heap, toolsCache, servers,
                 procs, callsLeft, slots, lastCheck>>

SpecScript == InitScript /\ [][ScriptRefers]_vars

\* ------------------------------------------------------- the two backends
\* One client of toolStorage.ts working on the browser's localStorage and,
\* through /api/tools, on table custom_tools.
MaxStoreOps == 2

\* process.env: USEDB, and whether DATABASE_URL is set
Envs == [USEDB : {"true", "false"}, hasDatabaseUrl : BOOLEAN]

\* isDatabaseEnabled()
IsDatabaseEnabled(env) == env.USEDB = "true" /\ env.hasDatabaseUrl

\* !name?.trim()
IsBlank(name) == name = ""

\* descriptors and names a client hands to toolStorage.ts
StoreTools ==
  ToolInputs \cup { [ScriptTool EXCEPT !.customLogic = ""],
                    [ScriptTool EXCEPT !.name = ""] }

StoreNames == CustomNames \cup { "ghost", "" }

\* a response of /api/tools, and the table after the request
Response(status, source, rows) ==
  [status |-> status, source |-> source, rows |-> rows]

\* whether the UPDATE of updateToolInDatabase breaks the UNIQUE constraint
RenameConflicts(rows, oldName, tool) ==
  /\ oldName \in Names(rows)
  /\ tool.name # oldName
  /\ tool.name \in Names(rows)

\* GET /api/tools; dbFails: a query of the request throws
ToolsGet(env, rows, dbFails) ==
  IF ~IsDatabaseEnabled(env) THEN Response(200, "localStorage", rows)
  ELSE IF dbFails THEN Response(500, "none", rows)
  ELSE Response(200, "database", rows)

\* POST /api/tools
ToolsPost(env, rows, tool, dbFails) ==
  IF IsBlank(tool.name) THEN Response(400, "none", rows)
  ELSE IF ~IsDatabaseEnabled(env) THEN Response(200, "localStorage", rows)
  ELSE IF dbFails THEN Response(500, "none", rows)
  ELSE Response(200, "database", Upsert(rows, tool))

\* PUT /api/tools
ToolsPut(env, rows, oldName, tool, dbFails) ==
  IF IsBlank(oldName) \/ IsBlank(tool.name) THEN Response(400, "none", rows)
  ELSE IF ~IsDatabaseEnabled(env) THEN Response(200, "localStorage", rows)
  ELSE IF dbFails \/ RenameConflicts(rows, oldName, tool)
  THEN Response(500, "none", rows)
  ELSE Response(200, "database", UpdateRow(rows, oldName, tool))

\* DELETE /api/tools
ToolsDelete(env, rows, toolName, dbFails) ==
  IF IsBlank(toolName) THEN Response(400, "none", rows)
  ELSE IF ~IsDatabaseEnabled(env) THEN Response(200, "localStorage", rows)
  ELSE IF dbFails THEN Response(500, "none", rows)
  ELSE Response(200, "database", DeleteRow(rows, toolName))

\* what goes wrong during one call of toolStorage.ts: nothing, the query of
\* its GET /api/tools, or its storage write (the query of the POST, PUT or
\* DELETE request, or localStorage.setItem)
Faults == {"none", "probe", "write"}

\* isDatabaseMode(): GET /api/tools answered ok with source 'database'
IsDatabaseMode(env, rows, fault) ==
  LET response == ToolsGet(env, rows, fault = "probe")
  IN response.status = 200 /\ response.source = "database"

\* saveToLocalStorage(tools): setItem, whose exception is caught and logged
SaveToLocalStorage(saved, tools, fault) ==
  IF fault = "write" THEN saved ELSE tools

\* tools.findIndex(t => t.name === oldName), 0 for -1
FindIndex(tools, oldName) ==
  IF \E i \in DOMAIN tools : tools[i].name = oldName
  THEN CHOOSE i \in DOMAIN tools :
         /\ tools[i].name = oldName
         /\ \A j \in 1..(i - 1) : tools[j].name # oldName
  ELSE 0

\* tools.filter(t => t.name !== toolName)
FilterOut(tools, toolName) == SelectSeq(tools, LAMBDA t : t.name # toolName)

\* the stores as the client found them, and the call it makes
Op(op, name, tool, mode, fault) ==
  [op |-> op, name |-> name, tool |-> tool, mode |-> mode, fault |-> fault,
   writeFailed |-> FALSE, outcome |-> "none",
   rowsBefore |-> store, localBefore |-> io.local]

\* a call that went to /api/tools, with the response it got
Answered(call, response, queried) ==
  [call EXCEPT !.writeFailed = queried /\ response.status = 500,
               !.outcome = IF response.status = 200 THEN "resolved"
                           ELSE "rejected"]

\* a call that went to localStorage; wrote: it called saveToLocalStorage
Stored(call, wrote) ==
  [call EXCEPT !.writeFailed = wrote /\ call.fault = "write",
               !.outcome = "resolved"]

InitStore ==
  /\ Start(0, 0)
  /\ \E env \in Envs :
       /\ dbEnabled = IsDatabaseEnabled(env)
       /\ io = [fn |-> "store", env |-> env, local |-> <<>>,
                opsLeft |-> MaxStoreOps,
                last |-> [op |-> "none", name |-> "", tool |-> ScriptTool,
                          mode |-> "none", fault |-> "none",
                          writeFailed |-> FALSE, outcome |-> "none",
                          rowsBefore |-> {}, localBefore |-> <<>>]]

\* addCustomTool(tool)
AddCustomTool(tool, fault) ==
  /\ io.fn = "store"
  /\ io.opsLeft > 0
  /\ IF IsDatabaseMode(io.env, store, fault)
     THEN \E response \in { ToolsPost(io.env, store, tool, fault = "write") } :
            /\ store' = response.rows
            /\ io' = [io EXCEPT !.opsLeft = @ - 1,
                        !.last = Answered(Op("add", tool.name, tool,
                                             "database", fault),
                                          response, ~IsBlank(tool.name))]
     ELSE /\ store' = store
          /\ io' = [io EXCEPT !.opsLeft = @ - 1,
                      !.local = SaveToLocalStorage(@, Append(@, tool), fault),
                      !.last = Stored(Op("add", tool.name, tool,
                                         "localStorage", fault), TRUE)]
  /\ UNCHANGED <<now, dbEnabled, storeVer, heap, toolsCache, servers, procs,
                 callsLeft, slots, lastCheck>>

\* updateCustomTool(oldName, tool)
UpdateCustomTool(oldName, tool, fault) ==
  /\ io.fn = "store"
  /\ io.opsLeft > 0
  /\ IF IsDatabaseMode(io.env, store, fault)
     THEN \E response \in
              { ToolsPut(io.env, store, oldName, tool, fault = "write") } :
            /\ store' = response.rows
            /\ io' = [io EXCEPT !.opsLeft = @ - 1,
                        !.last = Answered(Op("update", oldName, tool,
                                             "database", fault),
                                          response,
                                          ~IsBlank(oldName)
                                            /\ ~IsBlank(tool.name))]
     ELSE \E index \in { FindIndex(io.local, oldName) } :
            /\ store' = store
            /\ io' = [io EXCEPT !.opsLeft = @ - 1,
                        !.local = IF index = 0 THEN @
                                  ELSE SaveToLocalStorage(
                                         @, [@ EXCEPT ![index] = tool], fault),
                        !.last = Stored(Op("update", oldName, tool,
                                           "localStorage", fault),
                                        index # 0)]
  /\ UNCHANGED <<now, dbEnabled, storeVer, heap, toolsCache, servers, procs,
                 callsLeft, slots, lastCheck>>

\* deleteCustomTool(toolName)
DeleteCustomTool(toolName, fault) ==
  /\ io.fn = "store"
  /\ io.opsLeft > 0
  /\ IF IsDatabaseMode(io.env, store, fault)
     THEN \E response \in
              { ToolsDelete(io.env, store, toolName, fault = "write") } :
            /\ store' = response.rows
            /\ io' = [io EXCEPT !.opsLeft = @ - 1,
                        !.last = Answered(Op("delete", toolName, ScriptTool,
                                             "database", fault),
                                          response, ~IsBlank(toolName))]
     ELSE /\ store' = store
          /\ io' = [io EXCEPT !.opsLeft = @ - 1,
                      !.local = SaveToLocalStorage(
                                  @, FilterOut(@, toolName), fault),
                      !.last = Stored(Op("delete", toolName, ScriptTool,
                                         "localStorage", fault), TRUE)]
  /\ UNCHANGED <<now, dbEnabled, storeVer, heap, toolsCache, servers, procs,
                 callsLeft, slots, lastCheck>>

NextStore ==
  \/ \E tool \in StoreTools, fault \in Faults : AddCustomTool(tool, fault)
  \/ \E oldName \in StoreNames, tool \in StoreTools, fault \in Faults :
       UpdateCustomTool(oldName, tool, fault)
  \/ \E toolName \in StoreNames, fault \in Faults :
       DeleteCustomTool(toolName, fault)

SpecStore == InitStore /\ [][NextStore]_vars

\* ------------------------------------------------------------- properties
\* a tools/call of a custom tool that has run its executor
Dispatched(p) == procs[p].op = "call" /\ procs[p].pc = "done"

\* the descriptor a dispatched call executed, as its array holds it
ExecutedTool(p) == Find(heap[ExecSnap(procs[p])].asRead, procs[p].name)

\* C1: once the initializer has run on a server, every built-in name is bound
\* to its built-in handler, also when the table holds a descriptor of that
\* name, and the built-in registrations have all been made.
C1_BuiltinWins ==
  \A s \in Servers :
     servers[s].state \in {"ready", "failed"} =>
        /\ servers[s].state = "ready"
        /\ \A n \in BuiltinNames : servers[s].tools[n].kind = "builtin"

\* C2: a tools/call that starts when the name is in neither the table nor
\* the fresh cache, whose array was read after the deletion, executes
\* neither executeCustomLogic nor executeApiTool.
C2_DeletedNotDispatched ==
  \A p \in Procs :
     (Dispatched(p) /\ procs[p].startGone) =>
        procs[p].ran \notin {"script", "api", "threw"}

\* C3: a tools/call whose table reads all succeeded selects its descriptor
\* from an array read after every write made before the call started.
C3_WriterObservesWrite ==
  \A p \in Procs :
     (Dispatched(p) /\ procs[p].fails = 0) =>
        heap[procs[p].tools].readVer >= procs[p].startVer

C5_StaleCallReads ==
  \A p \in Procs :
     (Dispatched(p) /\ procs[p].startStale) =>
        /\ procs[p].lists >= 1
        /\ procs[p].lists > procs[p].fails =>
              heap[ExecSnap(procs[p])].reader = p

\* C6: when getToolsFromDatabase rejects, loadCustomTools returns to its
\* caller with the array the cache holds and leaves the cache and that array
\* as they were; a tools/call whose table reads all failed still executes,
\* with the cached array as currentTools.
C6_FailedLoadKeepsCache ==
  /\ [][\A p \in Procs :
          (/\ procs[p].pc = "dbWait"
           /\ procs[p].dbres = "none"
           /\ procs'[p].pc # "dbWait") =>
             /\ toolsCache' = toolsCache
             /\ heap'[toolsCache'.tools] = heap[toolsCache.tools]
             /\ procs'[p].tools = toolsCache'.tools
             /\ procs'[p].pc = procs[p].ctx
             /\ procs'[p].pc \in {"regAwait", "callAwait2", "refreshAwait2"}]_vars
  /\ [](\A p \in Procs :
          (Dispatched(p) /\ procs[p].lists >= 1
             /\ procs[p].fails = procs[p].lists) =>
             /\ procs[p].tools = toolsCache.tools
             /\ procs[p].ran \in {"script", "api", "threw"})

\* a tools/call whose table reads failed has executed a cached descriptor
C6_Witness ==
  \E p \in Procs :
     /\ Dispatched(p)
     /\ procs[p].fails >= 1
     /\ procs[p].found
     /\ toolsCache.timestamp > 0
     /\ HandlerStale(toolsCache)

\* C7: every name in toolsCache.registered names a descriptor of the array
\* the cache holds and has a custom handler on a server.
C7_RegisteredInSnapshot ==
  \A n \in toolsCache.registered :
     /\ n \in Names(heap[toolsCache.tools].tools)
     /\ \E s \in Servers : servers[s].tools[n].kind = "custom"

\* C8: when the initializer's registerCustomTools(server) has returned, every
\* descriptor of the array it loaded has a custom handler on that server.
C8_AllCustomListed ==
  \A p \in Procs :
     (procs[p].op = "init" /\ procs[p].pc = "done") =>
        \A t \in heap[procs[p].tools].tools :
           servers[procs[p].srv].tools[t.name].kind = "custom"

\* C9: every array a load returned holds the descriptors it was returned
\* with.
C9_NoInPlaceMutation ==
  \A i \in DOMAIN heap : heap[i].tools = heap[i].asRead

\* C10: a tools/call whose script throws an Error with message m returns an
\* envelope whose text contains m and whose isError is true.
C10_ScriptErrorFlagged ==
  \A p \in Procs :
     (/\ Dispatched(p)
      /\ procs[p].ran = "script"
      /\ RunScript(ExecutedTool(p).customLogic).kind = "throwError") =>
        /\ \E k \in DOMAIN procs[p].result.text :
              procs[p].result.text[k] =
                 RunScript(ExecutedTool(p).customLogic).value
        /\ procs[p].result.isError = TRUE

\* the ParameterSchema whose validator allParams holds for key
EffectiveParam(tool, key) ==
  IF tool.querySchema.defined /\ key \in DOMAIN tool.querySchema.properties
  THEN tool.querySchema.properties[key]
  ELSE tool.inputSchema.properties[key]

\* a tools/call that McpServer has validated or rejected
Validated == io.fn = "call" /\ io.stage # "received"

\* C11: a tools/call that omits a parameter which a schema of the tool lists
\* in required, and for which no schema of the tool declares a default, is
\* rejected with an issue for that parameter, and no executor runs.
C11_MissingRequiredRejected ==
  Validated =>
    \A key \in DOMAIN AllParams(io.tool) :
       LET declaring == { schema \in {io.tool.inputSchema, io.tool.querySchema} :
                            schema.defined /\ key \in DOMAIN schema.properties }
       IN
       (/\ ~HasKey(io.args, key)
        /\ \E schema \in declaring : key \in schema.required
        /\ \A schema \in declaring :
              ~schema.properties[key].hasDefault) =>
          /\ io.stage = "rejected"
          /\ key \in io.issues
          /\ io.ran = "none"

\* C19: a tools/call that omits a parameter whose ParameterSchema declares a
\* default passes validation, and the executor receives the default as the
\* parameter's value.
C19_DefaultSubstituted ==
  Validated =>
    \A key \in DOMAIN AllParams(io.tool) :
       (~HasKey(io.args, key) /\ EffectiveParam(io.tool, key).hasDefault) =>
          /\ io.stage # "rejected"
          /\ <<key, EffectiveParam(io.tool, key).default>> \in io.params

\* C20 as stated: the validator of a ParameterSchema with enum set, of any
\* type, accepts a provided value that is an enum member unchanged and
\* rejects every other provided value.
C20_EnumAnyType ==
  Validated =>
    \A key \in DOMAIN AllParams(io.tool) :
       (HasKey(io.args, key) /\ EffectiveParam(io.tool, key).hasEnum) =>
          LET param == EffectiveParam(io.tool, key)
              value == ValueOf(io.args, key)
          IN IF value.type = "string" /\ value.str \in param.enum
             THEN /\ key \notin io.issues
                  /\ io.stage # "rejected" => <<key, value>> \in io.params
             ELSE io.stage = "rejected" /\ key \in io.issues

\* C12: when refresh_custom_tools returns after table reads that all
\* succeeded, the cache is fresh, it holds an array this call read from the
\* table, and the summary has one line for each descriptor of that array.
C12_RefreshReloads ==
  [][\A p \in Procs :
       (/\ procs[p].pc = "refreshAwait2"
        /\ procs'[p].pc = "done"
        /\ dbEnabled
        /\ procs[p].fails = 0) =>
          /\ IsFresh(toolsCache)
          /\ heap[toolsCache.tools].reader = p
          /\ procs'[p].result.text =
                RefreshSummary(heap[toolsCache.tools].tools)]_vars

\* C13: the initialization of a server, which precedes its tools/list, does
\* not read the table, whether the cache is fresh or not.
C13_DiscoveryNoStoreList ==
  \A p \in Procs :
     procs[p].op = "init" =>
        /\ procs[p].lists = 0
        /\ procs[p].pc # "dbWait"

\* the bucket the routing rules name for a key: querySchema first, then
\* inputSchema, then the method
RuleBucket(tool, key) ==
  IF tool.querySchema.defined /\ key \in DOMAIN tool.querySchema.properties
  THEN "query"
  ELSE IF tool.inputSchema.defined
          /\ key \in DOMAIN tool.inputSchema.properties
  THEN "body"
  ELSE IF tool.apiConfig.method = "GET" THEN "query"
  ELSE "body"

\* C14: the parameter router partitions the arguments: every key of the
\* argument bag, with its value, is in exactly one of queryParams and
\* bodyParams, the one the first matching rule names, and nothing else is
\* in either; query a, body b, POST and {a:1, b:2, c:3} give {a:1} and
\* {b:2, c:3}.
C14_RouterPartitions ==
  io.fn = "api" /\ io.stage # "called" /\ ThrowsBeforeFetch(io.tool) = "" =>
    /\ io.routed.queryParams \cup io.routed.bodyParams = io.params
    /\ \A kv \in io.params :
         /\ kv \in io.routed.queryParams
              <=> RuleBucket(io.tool, kv[1]) = "query"
         /\ kv \in io.routed.bodyParams
              <=> RuleBucket(io.tool, kv[1]) = "body"
    /\ ( /\ io.tool.querySchema = ApiTool.querySchema
         /\ io.tool.inputSchema = ApiTool.inputSchema
         /\ io.tool.apiConfig.method = "POST"
         /\ io.params = {<<"a", Num(1)>>, <<"b", Num(2)>>, <<"c", Num(3)>>}
         => /\ io.routed.queryParams = {<<"a", Num(1)>>}
            /\ io.routed.bodyParams = {<<"b", Num(2)>>, <<"c", Num(3)>>} )

\* executeApiTool has made its outbound request
Fetched == io.fn = "api" /\ io.fetches > 0

\* C15: the request of a non-GET descriptor with body parameters carries
\* the JSON encoding of exactly bodyParams; Content-Type: application/json
\* is added only when the descriptor configures no Content-Type, and a
\* configured Content-Type is sent unchanged.
C15_BodyAndContentType ==
  /\ Fetched
  /\ io.tool.apiConfig.method # "GET"
  /\ io.routed.bodyParams # {}
  => LET ContentTypes(headers) == { kv \in headers : kv[1] = "Content-Type" }
         configured == IF io.tool.apiConfig.hasHeaders
                       THEN io.tool.apiConfig.headers ELSE {}
     IN /\ io.request.hasBody
        /\ JsonParse(io.request.body) = io.routed.bodyParams
        /\ ContentTypes(io.request.headers) =
             IF ContentTypes(configured) = {}
             THEN {<<"Content-Type", "application/json">>}
             ELSE ContentTypes(configured)

\* C16: the query string of the outbound URL is rebuilt from queryParams
\* alone, whatever the configured URL: its keys are the keys of
\* queryParams, each once and with its routed value, and no parameter of
\* the configured URL's own query string is left.
C16_QueryRebuilt ==
  Fetched =>
    /\ RequestQuery(io.request.finalUrl) =
         { <<kv[1], String(kv[2])>> : kv \in io.routed.queryParams }
    /\ \A kv \in RequestQuery(io.request.finalUrl) :
         Cardinality({ other \in RequestQuery(io.request.finalUrl) :
                         other[1] = kv[1] }) = 1
    /\ RequestQuery(io.request.finalUrl) \cap io.tool.apiConfig.url.query = {}

C18_NoRetryOnError ==
  io.fn = "api" =>
    /\ io.fetches <= 1
    /\ io.stage = "done" /\ io.status # 0 /\ io.status \notin 200..299 =>
         /\ io.fetches = 1
         /\ io.result.isError
         /\ \E i \in DOMAIN io.result.text :
              io.result.text[i] = ToString(io.status)
         /\ \E i \in DOMAIN io.result.text :
              io.result.text[i] = "response body"

\* an invocation has ended with a response outside 2xx
C18_Witness ==
  /\ io.fn = "api"
  /\ io.stage = "done"
  /\ io.status = 404
  /\ io.fetches = 1
  /\ io.result.isError

\* C21: the validator of a number or integer ParameterSchema with minimum a
\* and maximum b accepts a provided number v (whole, for an integer) exactly
\* when a <= v <= b, the bounds a and b included.
C21_RangeInclusive ==
  Validated =>
    \A key \in DOMAIN AllParams(io.tool) :
       LET param == EffectiveParam(io.tool, key)
           v == ValueOf(io.args, key)
           twice == 2 * v.num + (IF v.half THEN 1 ELSE 0)
       IN (/\ HasKey(io.args, key)
           /\ v.type = "number"
           /\ param.type \in {"number", "integer"}
           /\ param.hasMinimum /\ param.hasMaximum) =>
             ( key \notin io.issues
                 <=> /\ 2 * param.minimum <= twice
                     /\ twice <= 2 * param.maximum
                     /\ param.type = "integer" => ~v.half )

\* the maximum itself was provided for a ranged number and has passed
C21_Witness ==
  /\ io.fn = "call"
  /\ io.stage = "executed"
  /\ "name" \in DOMAIN AllParams(io.tool)
  /\ EffectiveParam(io.tool, "name") = RangeParam("number", 1, 3)
  /\ io.args = { <<"name", Num(3)>> }
  /\ <<"name", Num(3)>> \in io.params

\* C22: the name is a unique key of the Store: on either backend list()
\* holds at most one descriptor per name after any sequence of add, update
\* and delete, and an add under a name that exists replaces the descriptor
\* of that name.
C22_NameIsKey ==
  io.fn = "store" =>
   LET ListedRows(n) == { row \in store : row.name = n }
       ListedLocal(n) == { i \in DOMAIN io.local : io.local[i].name = n }
   IN
    /\ \A n \in StoreNames :
         /\ Cardinality(ListedRows(n)) <= 1
         /\ Cardinality(ListedLocal(n)) <= 1
    /\ ( /\ io.last.op = "add"
         /\ io.last.outcome = "resolved"
         /\ ~io.last.writeFailed
         /\ io.last.mode = "localStorage"
         => \A i \in ListedLocal(io.last.name) : io.local[i] = io.last.tool )
    /\ ( /\ io.last.op = "add"
         /\ io.last.outcome = "resolved"
         /\ io.last.mode = "database"
         => ListedRows(io.last.name) = { ToRow(io.last.tool) } )

\* C23: after a successful upsert of descriptor d on the database backend,
\* list() returns a descriptor named d.name that equals d in every field,
\* also when optional fields of d are absent or empty.
C23_RoundTrip ==
  ( /\ io.fn = "store"
    /\ io.last.op = "add"
    /\ io.last.mode = "database"
    /\ io.last.outcome = "resolved" )
  => \E row \in store : /\ row.name = io.last.tool.name
                        /\ RowToTool(row) = io.last.tool

\* C24: when the storage write of an add, update or delete fails, on either
\* backend, the call reports the failure to its caller and not success.
C24_WriteFailurePropagated ==
  io.fn = "store" /\ io.last.writeFailed => io.last.outcome = "rejected"

\* C25: with USEDB 'true' and DATABASE_URL unset the system reports a
\* configuration error: no operation succeeds and none is carried out on
\* the localStorage backend as if that backend had been selected.
C25_MissingUrlIsConfigError ==
  ( /\ io.fn = "store"
    /\ io.env.USEDB = "true"
    /\ ~io.env.hasDatabaseUrl
    /\ io.last.op # "none" )
  => /\ io.last.outcome = "rejected"
     /\ io.last.mode # "localStorage"

\* C26: the capabilities a script reaches while executeCustomLogic runs it
\* are params and safeGlobals with its entries, and nothing of the host: no
\* filesystem, process, network or timer capability.
C26_AllowlistClosed ==
  io.fn = "script" =>
    io.reached \subseteq {"params", "globals"} \cup SafeGlobalKeys

\* C27: the arguments of a tools/call are validated with the validator
\* compiled from the schemas of the descriptor the handler selects with
\* currentTools.find and executes, also after the schemas were changed in
\* the table and the cache has reloaded.
C27_ValidatedAsExecuted ==
  \A p \in Procs :
     (Dispatched(p) /\ procs[p].found) =>
        AllParams(Find(heap[procs[p].clo].tools, procs[p].name)) =
          AllParams(Find(heap[procs[p].tools].tools, procs[p].name))

\* C28: whatever the interleaving of overlapping loads, the array a load
\* installs was read from the table no earlier than the array it replaces,
\* and toolsCache.timestamp decreases only when refresh_custom_tools
\* invalidates the cache.
C28_CacheNeverRegresses ==
  [][ /\ heap'[toolsCache'.tools].readVer >= heap[toolsCache.tools].readVer
      /\ \/ toolsCache'.timestamp >= toolsCache.timestamp
         \/ \E p \in Procs :
               procs[p].pc = "idle" /\ procs'[p].op = "refresh" ]_vars

UpdatedUnknown ==
  /\ io.fn = "store"
  /\ io.last.op = "update"
  /\ ~IsBlank(io.last.name)
  /\ ~IsBlank(io.last.tool.name)
  /\ ~io.last.writeFailed
  /\ IF io.last.mode = "database"
     THEN io.last.name \notin Names(io.last.rowsBefore)
     ELSE \A i \in DOMAIN io.last.localBefore :
            io.last.localBefore[i].name # io.last.name

====
